---- MODULE Spec2Model ----
(***************************************************************************)
(* Model of line_notify.py: one scheduled invocation fetches the current   *)
(* pressure sample (get_api_data) and the sample of 30 minutes ago         *)
(* (get_bme680_data_from_influxdb), and analize_pressure_drop decides      *)
(* whether to push a LINE message, throttled by the instant persisted in   *)
(* last_notify.txt (should_notify).                                        *)
(*                                                                         *)
(* Time is counted in whole minutes.  A datetime is a record of its        *)
(* calendar fields and UTC offset; an ISO-8601 text is a record of the     *)
(* field sequence it spells and whether white space surrounds it.          *)
(* Pressure is counted in tenths of a hectopascal.                         *)
(***************************************************************************)
EXTENDS Integers, Sequences, FiniteSets, TLC

\* ------------------------------------------------------------- bounds

\* JST calendar days 1..MaxDay on which the sensor reports samples.
MaxDay == 1

\* How many accesses to last_notify.txt the file system may fail in a run
\* of SpecFaults.
MaxFaults == 1

\* ------------------------------------------------- program constants

\* timezone(timedelta(hours=9))
JstHours == 9

\* should_notify(..., threshold: int = 360), in minutes
DefaultThreshold_hours == 360 \div 60

DefaultThreshold == 360

\* elif delta_pressure < -1.0: the limit in tenths of a hectopascal
DropLimit == -10

\* return 0 <= jst_time.hour < 6
NightEnd == 6

MinutesPerHour == 60
MinutesPerDay == 24 * MinutesPerHour
JstOffset == JstHours * MinutesPerHour

\* ----------------------------------------------------- optional values

\* A value that may be None: val is read only when some holds.
Some(v) == [some |-> TRUE, val |-> v]

\* ------------------------------------------------- datetime and text

\* datetime built from a count of local minutes and a UTC offset
FromMinutes(m, off) ==
    [day |-> m \div MinutesPerDay,
     hour |-> (m % MinutesPerDay) \div MinutesPerHour,
     minute |-> m % MinutesPerHour,
     aware |-> TRUE,
     off |-> off]

LocalMinutes(dt) == dt.day * MinutesPerDay + dt.hour * MinutesPerHour + dt.minute

\* the instant of an aware datetime, in minutes of UTC
UtcMinutes(dt) == LocalMinutes(dt) - dt.off

\* datetime.astimezone(timezone(timedelta(hours=9)))
astimezone(dt, off) == FromMinutes(UtcMinutes(dt) + off, off)

\* None where a datetime, a text or a number is expected
NoTime == [some |-> FALSE, val |-> FromMinutes(0, 0)]
NoNumber == [some |-> FALSE, val |-> 0]

\* datetime.isoformat(): date and time fields, then the offset when aware
isoformat(dt) ==
    [pad |-> FALSE,
     fields |-> IF dt.aware
                THEN <<dt.day, dt.hour, dt.minute, dt.off>>
                ELSE <<dt.day, dt.hour, dt.minute>>]

\* str.strip()
strip(text) == [text EXCEPT !.pad = FALSE]

\* the empty string
EmptyText == [pad |-> FALSE, fields |-> <<>>]

NoText == [some |-> FALSE, val |-> EmptyText]

\* datetime.fromisoformat(): ValueError unless the text spells, with no
\* surrounding white space, fields that are all in range
fromisoformat(text) ==
    LET f == text.fields
        n == Len(f)
        wellFormed ==
            /\ ~text.pad
            /\ n \in {3, 4}
            /\ f[2] \in 0..23
            /\ f[3] \in 0..59
            /\ n = 4 => (f[4] > -MinutesPerDay /\ f[4] < MinutesPerDay)
    IN  IF wellFormed
        THEN [ok |-> TRUE,
              dt |-> [day |-> f[1], hour |-> f[2], minute |-> f[3],
                      aware |-> n = 4,
                      off |-> IF n = 4 THEN f[4] ELSE 0]]
        ELSE [ok |-> FALSE]

\* ------------------------------------------------------ is_night_hour

is_night_hour_inclusive(jst_time) == 0 <= jst_time.hour /\ jst_time.hour <= NightEnd

is_night_hour(jst_time) == 0 <= jst_time.hour /\ jst_time.hour < NightEnd

\* --------------------------------------------------- the cooldown store

\* last_notify.txt: whether it exists, and the text it holds
NoFile == [exists |-> FALSE, text |-> EmptyText]
FileWith(text) == [exists |-> TRUE, text |-> text]

\* How the file system treats this invocation's accesses to the record:
\*   "ok"           every access succeeds
\*   "read_error"   open(LAST_NOTIFY_FILE, "r") raises PermissionError
\*   "open_error"   open(LAST_NOTIFY_FILE, "w") raises PermissionError
\*   "write_error"  open(..., "w") truncates the file, f.write raises OSError
IoModes == {"ok", "read_error", "open_error", "write_error"}

\* current_jst_time - last_notify_time < timedelta(minutes=threshold)
WithinCooldown_inclusive(now, last, threshold) ==
    UtcMinutes(now) - UtcMinutes(last) <= threshold

WithinCooldown_elapsed_only(now, last, threshold) ==
    /\ UtcMinutes(now) - UtcMinutes(last) >= 0
    /\ UtcMinutes(now) - UtcMinutes(last) < threshold

WithinCooldown(now, last, threshold) ==
    UtcMinutes(now) - UtcMinutes(last) < threshold

\* except (FileNotFoundError, ValueError): pass
Caught_only_missing(exc) == exc = "FileNotFoundError"

Caught(exc) == exc \in {"FileNotFoundError", "ValueError"}

\* with open(LAST_NOTIFY_FILE, "w") as f: f.write(current_jst_time.isoformat())
WriteRecord_skipped(file, now) == file

WriteRecord_day_only(file, now) ==
    FileWith([pad |-> FALSE, fields |-> <<now.day, 0, 0, now.off>>])

WriteRecord(file, now) == FileWith(isoformat(now))

\* The try block of should_notify: the exception it raises, or "return False"
\* when the cooldown is active, or "pass" when it runs to its end.
ReadRecord(file, now, threshold, io) ==
    IF io = "read_error" THEN "PermissionError"
    ELSE IF ~file.exists THEN "FileNotFoundError"
    ELSE LET last_notify_time_str == strip(file.text)
             parsed == fromisoformat(last_notify_time_str)
         IN  IF last_notify_time_str = EmptyText THEN "ValueError"
             ELSE IF ~parsed.ok THEN "ValueError"
             ELSE IF parsed.dt.aware # now.aware THEN "TypeError"
             ELSE IF WithinCooldown(now, parsed.dt, threshold) THEN "return False"
             ELSE "pass"

\* should_notify: what it returns or raises, the record afterwards, and the
\* accesses to the record in the order they were made
should_notify(file, now, threshold, io) ==
    LET r == ReadRecord(file, now, threshold, io)
    IN  IF r = "return False"
        THEN [ret |-> FALSE, exc |-> "none", file |-> file, events |-> <<"read">>]
        ELSE IF r # "pass" /\ ~Caught(r)
        THEN [ret |-> FALSE, exc |-> r, file |-> file, events |-> <<"read">>]
        ELSE IF io = "open_error"
        THEN [ret |-> FALSE, exc |-> "PermissionError", file |-> file,
              events |-> <<"read", "write">>]
        ELSE IF io = "write_error"
        THEN [ret |-> FALSE, exc |-> "OSError", file |-> FileWith(EmptyText),
              events |-> <<"read", "write">>]
        ELSE [ret |-> TRUE, exc |-> "none", file |-> WriteRecord(file, now),
              events |-> <<"read", "write">>]

\* -------------------------------------------------------- send_message

\* A recipient identifier as configured: its characters and whether white
\* space surrounds them.  USER_IDS is LINE_USER_IDS split at the commas.
Uid(id, pad) == [id |-> id, pad |-> pad]

\* What the push endpoint does with one request: answer 200, answer an
\* error status, or fail in the transport so that requests.post raises
PostResults == {"200", "400", "raise"}

\* the loop of send_message from the i-th identifier on
RECURSIVE SendFrom(_, _, _, _)
SendFrom(ids, msg_text, net, i) ==
    IF i > Len(ids) THEN [posts |-> <<>>, exc |-> "none"]
    ELSE LET uid == strip(ids[i]).id
             post == [to |-> uid, text |-> msg_text, res |-> net[i]]
         IN  IF uid = "" THEN SendFrom(ids, msg_text, net, i + 1)
             ELSE IF net[i] = "raise"
             THEN [posts |-> <<post>>, exc |-> "ConnectionError"]
             ELSE LET rest == SendFrom(ids, msg_text, net, i + 1)
                  IN  [posts |-> <<post>> \o rest.posts, exc |-> rest.exc]

\* send_message: the delivery requests it issues, in order, and the
\* exception that ends it, if any
send_message(ids, msg_text, net) == SendFrom(ids, msg_text, net, 1)

\* ------------------------------------------------ analize_pressure_drop

\* delta_pressure = current_pressure - pressure_30min_ago
DeltaPressure_reversed(current_pressure, pressure_30min_ago) ==
    pressure_30min_ago - current_pressure

DeltaPressure(current_pressure, pressure_30min_ago) ==
    current_pressure - pressure_30min_ago

\* elif delta_pressure < -1.0
IsDrop_inclusive(delta_pressure) == delta_pressure <= DropLimit

IsDrop(delta_pressure) == delta_pressure < DropLimit

\* analize_pressure_drop up to the call of send_message: the branch taken,
\* the exception that ends it, if any, and what should_notify did to the record
analize_pressure_drop_cooldown_first(current_jst_time, current_pressure, jst_time_30min_ago, pressure_30min_ago, file, io) ==
    LET quiet(d, delta) ==
            [decision |-> d, exc |-> "none", delta |-> delta,
             file |-> file, events |-> <<>>]
    IN  IF ~current_jst_time.some \/ ~current_pressure.some
        THEN quiet("missing-data", NoNumber)
        ELSE IF ~jst_time_30min_ago.some \/ ~pressure_30min_ago.some
        THEN quiet("missing-data", NoNumber)
        ELSE LET delta_pressure ==
                     DeltaPressure(current_pressure.val, pressure_30min_ago.val)
                 sn == should_notify(file, current_jst_time.val,
                                     DefaultThreshold, io)
             IN  IF ~IsDrop(delta_pressure)
                 THEN quiet(IF is_night_hour(current_jst_time.val)
                            THEN "night-hours" ELSE "NoChange",
                            Some(delta_pressure))
                 ELSE [decision |-> IF sn.exc # "none" THEN "none"
                                    ELSE IF ~sn.ret THEN "cooldown-active"
                                    ELSE IF is_night_hour(current_jst_time.val)
                                    THEN "night-hours"
                                    ELSE "Notify",
                       exc |-> sn.exc,
                       delta |-> Some(delta_pressure),
                       file |-> sn.file,
                       events |-> sn.events]

analize_pressure_drop(current_jst_time, current_pressure, jst_time_30min_ago, pressure_30min_ago, file, io) ==
    LET quiet(d, delta) ==
            [decision |-> d, exc |-> "none", delta |-> delta,
             file |-> file, events |-> <<>>]
    IN  IF ~current_jst_time.some \/ ~current_pressure.some
        THEN quiet("missing-data", NoNumber)
        ELSE IF ~jst_time_30min_ago.some \/ ~pressure_30min_ago.some
        THEN quiet("missing-data", NoNumber)
        ELSE LET delta_pressure ==
                     DeltaPressure(current_pressure.val, pressure_30min_ago.val)
                 sn == should_notify(file, current_jst_time.val,
                                     DefaultThreshold, io)
             IN  IF is_night_hour(current_jst_time.val)
                 THEN quiet("night-hours", Some(delta_pressure))
                 ELSE IF IsDrop(delta_pressure)
                 THEN [decision |-> IF sn.exc # "none" THEN "none"
                                    ELSE IF sn.ret THEN "Notify"
                                    ELSE "cooldown-active",
                       exc |-> sn.exc,
                       delta |-> Some(delta_pressure),
                       file |-> sn.file,
                       events |-> sn.events]
                 ELSE quiet("NoChange", Some(delta_pressure))

\* --------------------------------------------------------- get_api_data

\* get_api_data: (current_time_jst, current_pressure), or None when the
\* except clause swallowed an exception and the function fell off its end
get_api_data(res) ==
    LET nothing == [some |-> FALSE, time |-> NoTime, pressure |-> NoNumber]
        parsed == fromisoformat(res.timestamp.val)
    IN  IF res.raised THEN nothing
        ELSE IF res.status_code # 200 THEN nothing
        ELSE IF ~res.json_ok THEN nothing
        ELSE IF ~res.timestamp.some THEN nothing
        ELSE IF ~parsed.ok THEN nothing
        ELSE [some |-> TRUE,
              time |-> Some(astimezone(parsed.dt, JstOffset)),
              pressure |-> res.pressure]

\* ---------------------------------------- get_bme680_data_from_influxdb

\* get_bme680_data_from_influxdb: the first record's (time_jst, pressure),
\* None when the query yields no record, or the exception that escapes
get_bme680_data_from_influxdb(result) ==
    LET nothing == [some |-> FALSE, time |-> NoTime, pressure |-> NoNumber]
        record == Head(result.records)
    IN  IF result.raised THEN [exc |-> "ApiException", ret |-> nothing]
        ELSE IF result.records = <<>> THEN [exc |-> "none", ret |-> nothing]
        ELSE IF ~record.time.some THEN [exc |-> "AttributeError", ret |-> nothing]
        ELSE [exc |-> "none",
              ret |-> [some |-> TRUE,
                       time |-> Some(astimezone(record.time.val, JstOffset)),
                       pressure |-> record.value]]

\* ------------------------------------------------------ the environment

\* Clock readings (hour, minute) of the samples the sensor reports, in JST
ClockMarks ==
    {<<0, 0>>, <<5, 59>>, <<6, 0>>, <<11, 59>>,
     <<12, 0>>, <<12, 1>>, <<23, 59>>}

\* the instants of those samples, in minutes of local JST time
JstInstants ==
    {d * MinutesPerDay + c[1] * MinutesPerHour + c[2] :
        d \in 1..MaxDay, c \in ClockMarks}

\* Pressures in tenths of a hectopascal
PastPressures == {10130}
CurrentPressures == {10130 - 11, 10130 - 10, 10130 + 11}

\* What requests.get(URL) can yield: a transport error, an error status, a
\* body that is not JSON, JSON without a timestamp, JSON whose timestamp
\* does not parse, and well-formed readings stamped in UTC with or without
\* a pressure
ApiResponse(raised, status_code, json_ok, timestamp, pressure) ==
    [raised |-> raised, status_code |-> status_code, json_ok |-> json_ok,
     timestamp |-> timestamp, pressure |-> pressure]

ApiResponses ==
    {ApiResponse(TRUE, 0, FALSE, NoText, NoNumber),
     ApiResponse(FALSE, 500, FALSE, NoText, NoNumber),
     ApiResponse(FALSE, 200, FALSE, NoText, NoNumber),
     ApiResponse(FALSE, 200, TRUE, NoText, Some(10130)),
     ApiResponse(FALSE, 200, TRUE,
                 Some([pad |-> FALSE, fields |-> <<1, 24, 0, 0>>]), Some(10130))}
    \cup
    {ApiResponse(FALSE, 200, TRUE,
                 Some(isoformat(FromMinutes(j - JstOffset, 0))), p) :
        j \in JstInstants,
        p \in {Some(v) : v \in CurrentPressures} \cup {NoNumber}}

\* What the Flux query can yield: an error, no record, a record without a
\* time, a record without a value, a record with both
InfluxResults ==
    {[raised |-> TRUE, records |-> <<>>],
     [raised |-> FALSE, records |-> <<>>],
     [raised |-> FALSE,
      records |-> <<[time |-> NoTime, value |-> Some(10130)]>>],
     [raised |-> FALSE,
      records |-> <<[time |-> Some(FromMinutes(MinutesPerDay, 0)),
                     value |-> NoNumber]>>]}
    \cup
    {[raised |-> FALSE,
      records |-> <<[time |-> Some(FromMinutes(MinutesPerDay, 0)),
                     value |-> Some(v)]>>] : v \in PastPressures}

\* LINE_USER_IDS as configured: "", " ", "U1" and "U1, ,U2"
UserIdLists ==
    {<<Uid("", FALSE)>>,
     <<Uid("", TRUE)>>,
     <<Uid("U1", FALSE)>>,
     <<Uid("U1", FALSE), Uid("", TRUE), Uid("U2", TRUE)>>}

\* What last_notify.txt can hold when the program starts: nothing at all,
\* the empty string, white space, text that is no timestamp, a timestamp
\* without offset, and the instants the program itself writes
InitialFiles ==
    {NoFile,
     FileWith(EmptyText),
     FileWith([pad |-> TRUE, fields |-> <<>>]),
     FileWith([pad |-> FALSE, fields |-> <<1, 24, 0, JstOffset>>]),
     FileWith([pad |-> FALSE, fields |-> <<1, 6, 0>>]),
     FileWith([pad |-> TRUE, fields |-> <<1, 6, 0, JstOffset>>])}
    \cup
    {FileWith(isoformat(FromMinutes(j, JstOffset))) : j \in JstInstants}

\* ------------------------------------------------------------ the state

VARIABLES
    file,     \* last_notify.txt
    pc,       \* "idle" between invocations, else the point the script reached:
              \* "blocked_get", "current", "blocked_query", "fetched", "sending"
    sample,   \* the four values lines 190 and 191 bind
    out,      \* what the invocation did: its branch, exception and requests
    prev,     \* history: the evaluation of the invocation before this one
    sent,     \* history: the current.timestamp of every Notify, in order
    budget    \* how many accesses to the record the file system may still fail

vars == <<file, pc, sample, out, prev, sent, budget>>

NoSample ==
    [current_jst_time |-> NoTime, current_pressure |-> NoNumber,
     jst_time_30min_ago |-> NoTime, pressure_30min_ago |-> NoNumber]

\* An invocation that has not started.  prior is the record as the
\* invocation found it; consulted, whether should_notify was called.
NoOut ==
    [ran |-> FALSE, decision |-> "none", exc |-> "none", delta |-> NoNumber,
     consulted |-> FALSE, prior |-> NoFile, io |-> "ok",
     events |-> <<>>, ids |-> <<>>, posts |-> <<>>]

\* The decision of the invocation before this one and the past sample it
\* compared, kept while this invocation is given the same samples (same).
NoPrev ==
    [decision |-> "none", same |-> FALSE,
     jst_time_30min_ago |-> NoTime, pressure_30min_ago |-> NoNumber]

Init ==
    /\ file \in InitialFiles
    /\ pc = "idle"
    /\ sample = NoSample
    /\ out = NoOut
    /\ prev = NoPrev
    /\ sent = <<>>
    /\ budget = 0

\* the same program on a file system that may fail
InitFaults ==
    /\ file \in InitialFiles
    /\ pc = "idle"
    /\ sample = NoSample
    /\ out = NoOut
    /\ prev = NoPrev
    /\ sent = <<>>
    /\ budget = MaxFaults

\* line 190: current_jst_time, current_pressure = get_api_data()
\* Unpacking None raises TypeError and ends the process.
FetchCurrent ==
    /\ pc = "idle"
    /\ \E res \in ApiResponses :
        LET got == get_api_data(res)
        IN  /\ sample' = [NoSample EXCEPT !.current_jst_time = got.time,
                                          !.current_pressure = got.pressure]
            /\ out' = [NoOut EXCEPT !.ran = TRUE,
                                    !.prior = file,
                                    !.exc = IF got.some THEN "none" ELSE "TypeError"]
            /\ pc' = IF got.some THEN "current" ELSE "idle"
            /\ prev' = IF /\ got.some
                          /\ out.decision # "none"
                          /\ got.time = sample.current_jst_time
                          /\ got.pressure = sample.current_pressure
                       THEN [decision |-> out.decision,
                             same |-> TRUE,
                             jst_time_30min_ago |-> sample.jst_time_30min_ago,
                             pressure_30min_ago |-> sample.pressure_30min_ago]
                       ELSE NoPrev
    /\ UNCHANGED <<file, sent, budget>>

\* line 117: requests.get(URL) is called without a timeout, so when the
\* sensor API accepts the request and never answers, the call blocks and
\* nothing in the program ends the wait.
StallCurrent ==
    /\ pc = "idle"
    /\ pc' = "blocked_get"
    /\ sample' = NoSample
    /\ out' = [NoOut EXCEPT !.ran = TRUE, !.prior = file]
    /\ prev' = NoPrev
    /\ UNCHANGED <<file, sent, budget>>

\* line 191: jst_time_30min_ago, pressure_30min_ago = get_bme680_data_from_influxdb()
FetchPast ==
    /\ pc = "current"
    /\ \E result \in InfluxResults :
        LET got == get_bme680_data_from_influxdb(result)
            exc == IF got.exc # "none" THEN got.exc
                   ELSE IF got.ret.some THEN "none" ELSE "TypeError"
        IN  /\ sample' = [sample EXCEPT !.jst_time_30min_ago = got.ret.time,
                                        !.pressure_30min_ago = got.ret.pressure]
            /\ out' = [out EXCEPT !.exc = exc]
            /\ pc' = IF exc = "none" THEN "fetched" ELSE "idle"
            /\ prev' = IF /\ prev.same
                          /\ got.ret.time = prev.jst_time_30min_ago
                          /\ got.ret.pressure = prev.pressure_30min_ago
                       THEN prev
                       ELSE NoPrev
    /\ UNCHANGED <<file, sent, budget>>

\* line 36: the query is sent and InfluxDB never answers
StallPast ==
    /\ pc = "current"
    /\ pc' = "blocked_query"
    /\ UNCHANGED <<file, sample, out, prev, sent, budget>>

\* line 20: the client is built with its default request timeout, so the
\* blocked query raises when that time has passed; the exception is not
\* caught and ends the process.
QueryTimeout ==
    /\ pc = "blocked_query"
    /\ pc' = "idle"
    /\ out' = [out EXCEPT !.exc = "ReadTimeoutError"]
    /\ prev' = NoPrev
    /\ UNCHANGED <<file, sample, sent, budget>>

\* lines 193-195 up to the call of send_message
Analyze ==
    /\ pc = "fetched"
    /\ \E io \in (IF budget > 0 THEN IoModes ELSE {"ok"}) :
        LET r == analize_pressure_drop(
                     sample.current_jst_time, sample.current_pressure,
                     sample.jst_time_30min_ago, sample.pressure_30min_ago,
                     file, io)
            consulted == r.events # <<>>
        IN  /\ out' = [out EXCEPT !.decision = r.decision,
                                  !.exc = r.exc,
                                  !.delta = r.delta,
                                  !.consulted = consulted,
                                  !.io = IF consulted THEN io ELSE "ok",
                                  !.events = r.events]
            /\ file' = r.file
            /\ pc' = IF r.decision = "Notify" THEN "sending" ELSE "idle"
            /\ sent' = IF r.decision = "Notify"
                       THEN Append(sent, UtcMinutes(sample.current_jst_time.val))
                       ELSE sent
            /\ budget' = IF consulted /\ io # "ok" THEN budget - 1 ELSE budget
    /\ UNCHANGED <<sample, prev>>

\* line 77: send_message(text), the text carrying current_pressure
Send_rollback ==
    /\ pc = "sending"
    /\ \E ids \in UserIdLists :
        \E net \in [1..Len(ids) -> PostResults] :
            LET r == send_message(ids, sample.current_pressure.val, net)
            IN  /\ out' = [out EXCEPT !.exc = r.exc,
                                      !.ids = ids,
                                      !.posts = r.posts,
                                      !.events = @ \o [i \in 1..Len(r.posts) |-> "post"]]
                /\ file' = IF r.exc = "none" THEN file ELSE out.prior
    /\ pc' = "idle"
    /\ UNCHANGED <<sample, prev, sent, budget>>

Send ==
    /\ pc = "sending"
    /\ \E ids \in UserIdLists :
        \E net \in [1..Len(ids) -> PostResults] :
            LET r == send_message(ids, sample.current_pressure.val, net)
            IN  out' = [out EXCEPT !.exc = r.exc,
                                   !.ids = ids,
                                   !.posts = r.posts,
                                   !.events = @ \o [i \in 1..Len(r.posts) |-> "post"]]
    /\ pc' = "idle"
    /\ UNCHANGED <<file, sample, prev, sent, budget>>

Next ==
    \/ FetchCurrent
    \/ StallCurrent
    \/ FetchPast
    \/ StallPast
    \/ QueryTimeout
    \/ Analyze
    \/ Send

Spec == Init /\ [][Next]_vars

SpecFaults == InitFaults /\ [][Next]_vars

\* Once started, the process keeps running: every step of it that can be
\* taken is taken.  Nothing obliges the scheduler to start an invocation.
Progress ==
    /\ WF_vars(FetchPast)
    /\ WF_vars(QueryTimeout)
    /\ WF_vars(Analyze)
    /\ WF_vars(Send)

SpecLive == Init /\ [][Next]_vars /\ Progress

\* ------------------------------------------------- what the claims read

\* the invocation got both samples, so that analize_pressure_drop compared them
Evaluated ==
    /\ pc \in {"idle", "sending"}
    /\ out.ran
    /\ sample.current_jst_time.some /\ sample.current_pressure.some
    /\ sample.jst_time_30min_ago.some /\ sample.pressure_30min_ago.some

\* the invocation has ended
Ended == pc = "idle" /\ out.ran

Current == sample.current_jst_time.val

\* current.pressure - past.pressure, in tenths of a hectopascal
Delta == sample.current_pressure.val - sample.pressure_30min_ago.val

LocalHour == Current.hour

\* readLastNotified(): the instant the record holds, if it holds one
ReadLastNotified(f) ==
    LET parsed == fromisoformat(strip(f.text))
    IN  IF f.exists /\ parsed.ok THEN Some(parsed.dt) ELSE NoTime

\* the record holds an instant with an offset
ValidRecord(f) == ReadLastNotified(f).some /\ ReadLastNotified(f).val.aware

\* minutes from the instant of record f to the current timestamp
SinceRecord(f) == UtcMinutes(Current) - UtcMinutes(ReadLastNotified(f).val)

\* a drop of more than 1.0 hPa seen outside the night hours
QualifyingDrop == Evaluated /\ Delta < -10 /\ LocalHour \in 6..23

NonBlank(ids) == {i \in 1..Len(ids) : strip(ids[i]).id # ""}

TypeOK ==
    /\ pc \in {"idle", "blocked_get", "current", "blocked_query",
              "fetched", "sending"}
    /\ file.exists \in BOOLEAN
    /\ out.decision \in {"none", "missing-data", "night-hours", "NoChange",
                         "cooldown-active", "Notify"}
    /\ budget \in 0..MaxFaults

\* ------------------------------------------------------------ the claims

\* C1: any two invocations that decide Notify have current timestamps at
\* least 360 minutes apart, the later one later, and after a Notify the
\* record holds the instant of the last one.
C1_OncePerCooldownWindow ==
    /\ \A i \in 1..Len(sent) : \A j \in 1..Len(sent) :
           i < j => sent[j] - sent[i] >= 360
    /\ sent # <<>> =>
           /\ ValidRecord(file)
           /\ UtcMinutes(ReadLastNotified(file).val) = sent[Len(sent)]

\* three notifications, the second exactly 360 minutes after the first
C1_Witness ==
    /\ Len(sent) = 3
    /\ sent[2] - sent[1] = 360
    /\ Ended

\* C2: with both samples present and the current timestamp's JST hour in
\* 0..5 the invocation ends in night-hours suppression and issues no
\* request, whatever the delta and the record; with hour 6..23 it never does.
C2_NightHoursSuppressed ==
    Evaluated =>
        /\ LocalHour \in 0..5 =>
               /\ out.decision = "night-hours"
               /\ out.exc = "none"
               /\ pc = "idle"
               /\ out.posts = <<>>
        /\ LocalHour \in 6..23 => out.decision # "night-hours"

\* hour 0, a drop of more than 1.0 hPa, no record at all: suppressed
C2_Witness ==
    /\ Evaluated
    /\ LocalHour = 0
    /\ Delta < -10
    /\ ~out.prior.exists
    /\ out.decision = "night-hours"

\* C3: a qualifying drop with no record decides Notify, send_message is
\* called and issues a request unless every identifier is blank, and the
\* record then reads back as exactly the current timestamp.
C3_FirstDropNotifies ==
    (QualifyingDrop /\ ~out.prior.exists) =>
        /\ out.decision = "Notify"
        /\ ReadLastNotified(file) = Some(Current)
        /\ Ended => /\ out.ids # <<>>
                    /\ NonBlank(out.ids) # {} => out.posts # <<>>

C3_Witness ==
    /\ QualifyingDrop
    /\ ~out.prior.exists
    /\ Ended
    /\ Len(out.posts) = 2

\* C4: a qualifying drop less than 360 minutes after the instant L of a
\* valid record is suppressed as cooldown-active: no request is issued and
\* the record still holds L.
C4_CooldownActiveSuppresses ==
    (QualifyingDrop /\ ValidRecord(out.prior)
        /\ SinceRecord(out.prior) < 360) =>
        /\ out.decision = "cooldown-active"
        /\ out.exc = "none"
        /\ pc = "idle"
        /\ out.posts = <<>>
        /\ file = out.prior

\* a drop one minute after the recorded notification
C4_Witness ==
    /\ QualifyingDrop
    /\ ValidRecord(out.prior)
    /\ SinceRecord(out.prior) = 1
    /\ out.decision = "cooldown-active"
    /\ Len(sent) = 1

\* C5: a qualifying drop 360 minutes or more after the instant L of a valid
\* record decides Notify, and the record then holds the current timestamp
\* and nothing else.
C5_ExpiredCooldownNotifies ==
    (QualifyingDrop /\ ValidRecord(out.prior)
        /\ SinceRecord(out.prior) >= 360) =>
        /\ out.decision = "Notify"
        /\ file.exists
        /\ file.text.fields =
               <<Current.day, Current.hour, Current.minute, Current.off>>
        /\ ~file.text.pad

\* a drop exactly 360 minutes after the recorded notification
C5_Witness ==
    /\ QualifyingDrop
    /\ ValidRecord(out.prior)
    /\ SinceRecord(out.prior) = 360
    /\ out.decision = "Notify"
    /\ Ended

\* C6 as stated: with both samples present and a delta of -1.0 hPa or more
\* the decision is NoChange at any time of day and for any record.
C6_Original ==
    (Evaluated /\ Delta >= -10) => out.decision = "NoChange"

\* C6, amended: with both samples present and a delta of -1.0 hPa or more
\* the decision is NoChange outside the night hours and night-hours
\* suppression within them, for any record; no request is issued and the
\* record is neither consulted nor changed.
C6_NoChangeOutsideNight ==
    (Evaluated /\ Delta >= -10) =>
        /\ LocalHour \in 6..23 => out.decision = "NoChange"
        /\ LocalHour \in 0..5 => out.decision = "night-hours"
        /\ out.exc = "none"
        /\ pc = "idle"
        /\ out.posts = <<>>
        /\ ~out.consulted
        /\ file = out.prior

\* a rise at noon with the cooldown long expired: NoChange
C6_Witness ==
    /\ Evaluated
    /\ Delta > 0
    /\ LocalHour = 12
    /\ ValidRecord(out.prior)
    /\ SinceRecord(out.prior) >= 360
    /\ out.decision = "NoChange"

\* C7 as stated: an invocation in which a provider yields no sample ends in
\* missing-data suppression, without a request, without a change of the
\* record and without an exception.
C7_MissingDataSurfaced ==
    (Ended /\ ~Evaluated) =>
        /\ out.decision = "missing-data"
        /\ out.exc = "none"
        /\ out.posts = <<>>
        /\ file = out.prior

\* C8: a qualifying drop that finds the record missing, empty, blank or not
\* a timestamp decides Notify, and the record then holds the current
\* timestamp.
C8_CorruptRecordFailsOpen ==
    (QualifyingDrop /\ ~ReadLastNotified(out.prior).some) =>
        /\ out.decision = "Notify"
        /\ file = FileWith(isoformat(Current))
        /\ ReadLastNotified(file).val = Current

\* the record held text that is no timestamp
C8_Witness ==
    /\ QualifyingDrop
    /\ out.prior.exists
    /\ out.prior.text.fields # <<>>
    /\ ~ReadLastNotified(out.prior).some
    /\ out.decision = "Notify"
    /\ Ended

\* this invocation evaluated the samples the invocation before it evaluated
Repeated == Evaluated /\ prev.same

\* C9 as stated: the same two samples evaluated twice in a row get the same
\* decision both times.
C9_Original == Repeated => out.decision = prev.decision

\* C9, amended: the same two samples evaluated twice in a row get the same
\* decision both times unless the first decision is Notify; that evaluation
\* wrote its current timestamp to the record, and the second is suppressed
\* as cooldown-active.  An evaluation that decides anything other than
\* Notify leaves the record as it was.  (An invocation that an exception
\* ended has decided nothing: its decision is "none".)
C9_SameDecisionUnlessNotified ==
    /\ (Repeated /\ out.decision # "none") =>
           IF prev.decision = "Notify"
           THEN /\ out.decision = "cooldown-active"
                /\ ReadLastNotified(out.prior) = Some(Current)
           ELSE out.decision = prev.decision
    /\ (Evaluated /\ out.decision \notin {"Notify", "none"}) => file = out.prior

\* Notify, then the same samples again: cooldown-active
C9_Witness ==
    /\ Repeated
    /\ prev.decision = "Notify"
    /\ out.decision = "cooldown-active"

\* C10 as stated: an invocation that leaves the record different from what
\* it found has issued at least one delivery request.
C10_WrittenOnlyWhenSent ==
    (Ended /\ file # out.prior) => Len(out.posts) >= 1

\* C11 as stated: when the write of the record fails on a qualifying drop
\* whose cooldown is expired or absent, send_message is still called and
\* issues its delivery requests.
C11_WriteErrorStillSends ==
    (Ended /\ QualifyingDrop /\ out.io \in {"open_error", "write_error"}
        /\ out.events = <<"read", "write">>) =>
        /\ out.ids # <<>>
        /\ NonBlank(out.ids) # {} => out.posts # <<>>

\* C12 as stated: when reading the record fails with an I/O error other
\* than a missing file, the record counts as absent: nothing is raised and a
\* qualifying drop decides Notify.
C12_ReadErrorFailsOpen ==
    (QualifyingDrop /\ out.io = "read_error") =>
        /\ out.decision = "Notify"
        /\ out.exc \in {"none", "ConnectionError"}

\* C13 as stated: an invocation that decides Notify issues exactly one
\* delivery request to each non-blank identifier, in order and whatever the
\* requests before it met, and ends without an exception.
C13_OneRequestPerRecipient ==
    (Ended /\ out.decision = "Notify") =>
        /\ Len(out.posts) = Cardinality(NonBlank(out.ids))
        /\ \A i \in NonBlank(out.ids) :
               Cardinality({k \in 1..Len(out.posts) :
                               out.posts[k].to = strip(out.ids[i]).id}) = 1
        /\ out.exc = "none"

\* C14: outside the night hours a delta of exactly -1.0 hPa decides
\* NoChange, with no request and the record untouched, and every Notify
\* has a delta below -1.0 hPa.
C14_StrictDropThreshold ==
    /\ (Evaluated /\ Delta = -10 /\ LocalHour \in 6..23) =>
           /\ out.decision = "NoChange"
           /\ pc = "idle"
           /\ out.posts = <<>>
           /\ out.events = <<>>
           /\ file = out.prior
    /\ out.decision = "Notify" => (Evaluated /\ Delta < -10)

\* exactly -1.0 hPa at 06:00 with no record to hold a notification back
C14_Witness ==
    /\ Evaluated
    /\ Delta = -10
    /\ LocalHour = 6
    /\ ~out.prior.exists
    /\ out.decision = "NoChange"

\* C15: in an invocation that decides Notify the record is written before
\* the first delivery request is issued, and when the invocation has ended
\* the record holds the current timestamp, whether the requests were
\* answered 200, answered an error status, or raised.
C15_WriteBeforeSendNoRollback ==
    out.decision = "Notify" =>
        /\ Len(out.events) >= 2
        /\ out.events[1] = "read"
        /\ out.events[2] = "write"
        /\ \A k \in 3..Len(out.events) : out.events[k] = "post"
        /\ Len(out.events) = 2 + Len(out.posts)
        /\ file = FileWith(isoformat(Current))
        /\ ReadLastNotified(file) = Some(Current)

\* the first request was answered with an error status, the second raised
C15_Witness ==
    /\ Ended
    /\ out.decision = "Notify"
    /\ Len(out.posts) = 2
    /\ out.posts[1].res = "400"
    /\ out.posts[2].res = "raise"
    /\ out.exc = "ConnectionError"
    /\ file = FileWith(isoformat(Current))

\* C16: an invocation that ends in missing-data suppression, night-hours
\* suppression or NoChange has neither read nor written the record and
\* leaves it as it found it; and whether an invocation ends in one of the
\* three is settled by the samples alone, whatever the record holds.
C16_CooldownConsultedOnlyForDrops ==
    /\ out.decision \in {"missing-data", "night-hours", "NoChange"} =>
           /\ out.events = <<>>
           /\ ~out.consulted
           /\ file = out.prior
           /\ out.exc = "none"
           /\ pc = "idle"
    /\ (Evaluated /\ LocalHour \in 0..5) => out.decision = "night-hours"
    /\ (Evaluated /\ LocalHour \in 6..23 /\ Delta >= -10) =>
           out.decision = "NoChange"
    /\ (Ended /\ out.exc = "none" /\ ~Evaluated) => out.decision = "missing-data"
    /\ QualifyingDrop => out.consulted

\* a drop at 05:59 over a record written 359 minutes before
C16_Witness ==
    /\ Evaluated
    /\ LocalHour = 5
    /\ Delta < -10
    /\ ValidRecord(out.prior)
    /\ SinceRecord(out.prior) = 359
    /\ out.decision = "night-hours"
    /\ file = out.prior

\* C17 as stated: every invocation that has started runs to its end, also
\* when a provider never answers.
C17_EveryCycleCompletes == (pc # "idle") ~> (pc = "idle")

\* C18: a qualifying drop whose current timestamp is earlier than the
\* instant of a valid record is suppressed as cooldown-active and leaves the
\* record unchanged; hence an invocation that found a valid record leaves
\* one that holds the same or a later instant.
C18_RecordedInstantNeverDecreases ==
    /\ (QualifyingDrop /\ ValidRecord(out.prior) /\ SinceRecord(out.prior) < 0) =>
           /\ out.decision = "cooldown-active"
           /\ out.posts = <<>>
           /\ file = out.prior
    /\ (out.ran /\ ValidRecord(out.prior)) =>
           /\ ValidRecord(file)
           /\ UtcMinutes(ReadLastNotified(file).val)
                  >= UtcMinutes(ReadLastNotified(out.prior).val)

\* after a notification at 12:00 a drop stamped 06:00 of the same day
C18_Witness ==
    /\ QualifyingDrop
    /\ sent # <<>>
    /\ ValidRecord(out.prior)
    /\ SinceRecord(out.prior) = -360
    /\ out.decision = "cooldown-active"
    /\ file = out.prior

====
